---- MODULE Spec2Model ----
(***************************************************************************)
(* Training-run lifecycle of tabpfn/fit_model.py (and the matching parts   *)
(* of mothernet/fit_model.py): the per-epoch save callback with its disk   *)
(* guard and checkpoint pruning, the tail of main that fires the on_exit   *)
(* callback, and the configuration reconciliation done before training.    *)
(*                                                                         *)
(* Spec       main from the get_model call to its return: the epoch loop   *)
(*            with save_callback, then the on_exit invocation.             *)
(* SpecSetup  main from the parsed arguments to the get_model call.        *)
(***************************************************************************)
EXTENDS Integers, Sequences, FiniteSets, TLC

VARIABLES
    pc,          \* position of main
    args,        \* the parsed invocation (argparse namespace)
    rank,        \* rank returned by init_device
    model,       \* the model object's training history attributes
    epoch,       \* last epoch the loop finished
    fs,          \* checkpoint files under base_path
    log,         \* lines of the per-run log file
    config,      \* the config dict of main
    cb,          \* what the last save_callback invocation did
    written,     \* files written by save_callback during this run
    faults,      \* invocations so far that met a raising library call or a full disk
    program,     \* which main runs: tabpfn/fit_model.py or mothernet/fit_model.py
    ckpt,        \* the checkpoint tuple stored at load_file
    recon,       \* what main loaded and assembled before reconciling
    passed,      \* model_state, optimizer_state, scheduler handed to get_model
    tracking,    \* the mlflow client
    sched,       \* a learning-rate scheduler object
    param_groups \* the learning rate of each parameter group of its optimizer

vars == <<pc, args, rank, model, epoch, fs, log, config, cb, written, faults,
          program, ckpt, recon, passed, tracking, sched, param_groups>>

\* the variables of the schedulers, which main and the callback never touch
schedVars == <<sched, param_groups>>

\* the variables the training loop and the callback leave alone
setupVars == <<program, ckpt, recon, passed, tracking>>

\* the variables main leaves alone before get_model is called
trainVars == <<model, epoch, log, cb, written, faults>>

----------------------------------------------------------------------------
(* Bounds of the model *)

MaxEpoch == 3
MaxFaults == 1
MaxPreExisting == 1
MaxSteps == 5

(* disk_usage.free < 1024 * 1024 * 1024 * 2, counted in MiB *)
DiskThresholdMiB == 2048

LossValues == {1, 2}
FreeValues == {DiskThresholdMiB - 1, DiskThresholdMiB}
SaveEveryValues == 1..(MaxEpoch + 1)

----------------------------------------------------------------------------
(* Values *)

\* the epoch argument of the callback: an integer, "start" or "on_exit"
IntEpoch(n) == [tag |-> "int", n |-> n]
on_exit == [tag |-> "on_exit", n |-> 0]
start == [tag |-> "start", n |-> 0]

\* config values: a scalar or a nested dict
EmptyDict == [k \in {} |-> 0]
Scalar(x) == [isdict |-> FALSE, v |-> x, d |-> EmptyDict, tensor |-> <<>>]
Dict(f) == [isdict |-> TRUE, v |-> 0, d |-> f, tensor |-> <<>>]

\* a torch tensor of one dimension with the elements of seq, seq not empty
Tensor(seq) == [isdict |-> FALSE, v |-> 0, d |-> EmptyDict, tensor |-> seq]

\* d[k] = x on a python dict
Put(d, k, x) == [j \in (DOMAIN d) \cup {k} |-> IF j = k THEN x ELSE d[j]]

\* seq[i] with python's indexing: 0-based, negative indices count from the end
PyIndex(seq, i) == IF i < 0 THEN seq[Len(seq) + i + 1] ELSE seq[i + 1]

PyIndexValid(seq, i) == IF i < 0 THEN -i <= Len(seq) ELSE i < Len(seq)

----------------------------------------------------------------------------
(* Files *)

\* f'{base_path}/models_diff/{model_string}_epoch_{epoch}.cpkt'
EpochFile(ep) == [dir |-> "models_diff", tag |-> ep.tag, n |-> ep.n]

\* f'{base_path}/checkpoint.mothernet'
SlotFile == [dir |-> "base", tag |-> "checkpoint", n |-> 0]

Buckets == 0..MaxEpoch
BucketFile(b) == EpochFile(IntEpoch(b))
Files == {BucketFile(b) : b \in Buckets} \cup {EpochFile(on_exit), SlotFile}

NoFile == [exists |-> FALSE, optimizer |-> FALSE, scheduler |-> FALSE, epoch_in_training |-> start]
OldFile == [exists |-> TRUE, optimizer |-> TRUE, scheduler |-> TRUE, epoch_in_training |-> start]

\* the tuple save_model writes: (model, optimizer, scheduler, config)
SavedTuple(optimizer, scheduler, cfg) ==
    [exists |-> TRUE, optimizer |-> optimizer, scheduler |-> scheduler,
     epoch_in_training |-> cfg["epoch_in_training"].v]

----------------------------------------------------------------------------
(* Environment of one callback invocation: the free space disk_usage reports *)
(* and the library call, if any, that raises during it.                      *)

FaultKinds == {"none", "log", "mlflow", "report", "mkdirs", "log2", "save", "remove"}

Envs == {e \in [free : FreeValues, fault : FaultKinds, bucket : Buckets] :
            e.fault # "remove" => e.bucket = 0}

----------------------------------------------------------------------------
(* save_callback *)

\* f'Epoch {epoch} loss {model.losses[-1]} learning_rate {model.learning_rates[-1]}\n'
EpochLine(ep, m) ==
    [kind |-> "Epoch", tag |-> ep.tag, n |-> ep.n,
     loss |-> PyIndex(m.losses, -1), learning_rate |-> PyIndex(m.learning_rates, -1)]

\* f'Saving model to {file_name}\n'
SavingLine(file) ==
    [kind |-> "Saving model to", tag |-> file.tag, n |-> file.n, loss |-> 0, learning_rate |-> 0]

\* a save decision that takes the quotient for the remainder
WriteDueQuotient(ep, a) == ep.tag = "on_exit" \/ (ep.tag = "int" /\ ep.n \div a.save_every = 0)

\* epoch == "on_exit" or epoch % save_every == 0
WriteDue(ep, a) == ep.tag = "on_exit" \/ (ep.tag = "int" /\ ep.n % a.save_every = 0)

\* the file the callback writes to
FileName(ep, a) == IF a.checkpoint_dir THEN SlotFile ELSE EpochFile(ep)

\* epoch != "on_exit" and epoch - save_every > 0
PruneDue(ep, a) == ep.tag # "on_exit" /\ ep.n - a.save_every > 0

\* the files examined by the pruning loop: range(epoch // save_every)
PruneCount(ep, a) == ep.n \div a.save_every

\* an index that reads the loss of the epoch after the bucket
PruneLossIndexOfNext(i, a) == i * a.save_every

\* loss = model.losses[i * save_every - 1]
PruneLossIndex(i, a) == i * a.save_every - 1

\* a name that is the file of the bucket after the one judged
OldFileNameOfNext(i, a) == BucketFile((i + 1) * a.save_every)

\* old_file_name = f'{base_path}/models_diff/{model_string}_epoch_{i * save_every}.cpkt'
OldFileName(i, a) == BucketFile(i * a.save_every)

\* a pruning test that also removes a file of equal loss
DominatedOrEqual(loss, this_loss) == loss >= this_loss

\* if loss > this_loss: remove
Dominated(loss, this_loss) == loss > this_loss

\* the loop "for i in range(epoch // save_every)" from iteration i on
RECURSIVE Prune(_, _, _, _, _, _)
Prune(i, ep, m, a, env, acc) ==
    IF i >= PruneCount(ep, a) THEN acc
    ELSE IF ~PyIndexValid(m.losses, PruneLossIndex(i, a))
    THEN [acc EXCEPT !.failed = "prune"]
    ELSE LET loss == PyIndex(m.losses, PruneLossIndex(i, a))
             this_loss == PyIndex(m.losses, -1)
             b == i * a.save_every
             old_file_name == OldFileName(i, a)
             seen == [acc EXCEPT !.examined = @ \cup {b}]
         IN  IF ~acc.fs[old_file_name].exists
             THEN Prune(i + 1, ep, m, a, env, seen)
             ELSE IF ~Dominated(loss, this_loss)
             THEN Prune(i + 1, ep, m, a, env, seen)
             ELSE IF env.fault = "remove" /\ env.bucket = b
             THEN Prune(i + 1, ep, m, a, env,
                        [seen EXCEPT !.failed = "remove", !.remove_failed = @ \cup {b}])
             ELSE Prune(i + 1, ep, m, a, env,
                        [seen EXCEPT !.fs[old_file_name] = NoFile, !.removed = @ \cup {b}])

\* a recording that also resets the configured rate
RecordHistoryAndRate(cfg, ep) ==
    Put(Put(Put(Put(Put(cfg, "epoch_in_training", Scalar(ep)),
                    "learning_rates", Scalar("model.learning_rates")),
                "losses", Scalar("model.losses")),
            "wallclock_times", Scalar("model.wallclock_times")),
        "lr", Scalar(0))

\* lines 133-136: the four run-derived fields of config
RecordHistory(cfg, ep) ==
    Put(Put(Put(Put(cfg, "epoch_in_training", Scalar(ep)),
                "learning_rates", Scalar("model.learning_rates")),
            "losses", Scalar("model.losses")),
        "wallclock_times", Scalar("model.wallclock_times"))

\* lines 116-157: the checkpoint write and the pruning, inside try/except
WriteCheckpoint(r, ep, a, optimizer, scheduler, env) ==
    IF ~WriteDue(ep, a) THEN r
    ELSE IF a.checkpoint_dir /\ ep.tag = "on_exit" THEN r
    ELSE IF env.fault = "mkdirs" THEN [r EXCEPT !.failed = "mkdirs"]
    ELSE IF env.free < DiskThresholdMiB THEN [r EXCEPT !.warned = TRUE]
    ELSE IF env.fault = "log2" THEN [r EXCEPT !.failed = "log2"]
    ELSE LET file_name == FileName(ep, a)
             cfg == RecordHistory(r.config, ep)
             logged == [r EXCEPT !.log = Append(@, SavingLine(file_name)), !.config = cfg]
         IN  IF env.fault = "save" THEN [logged EXCEPT !.failed = "save"]
             ELSE LET saved == [logged EXCEPT
                                   !.fs[file_name] = SavedTuple(optimizer, scheduler, cfg),
                                   !.wrote = {file_name}]
                  IN  IF PruneDue(ep, a) THEN Prune(0, ep, r.model, a, env, saved)
                      ELSE saved

\* lines 107-114: the metrics sent to mlflow and to the syne-tune reporter
Report(r, ep, a, env) ==
    IF ep.tag = "on_exit" THEN r
    ELSE IF ~a.no_mlflow /\ env.fault = "mlflow"
    THEN [r EXCEPT !.raised = TRUE, !.failed = "mlflow"]
    ELSE IF env.fault = "report"
    THEN [r EXCEPT !.raised = TRUE, !.failed = "report", !.mlflow_logged = ~a.no_mlflow]
    ELSE [r EXCEPT !.mlflow_logged = ~a.no_mlflow, !.reported = TRUE]

\* lines 100-105: the log append, inside its own try/except
AppendLog(r, ep, env) ==
    IF env.fault = "log" \/ ~PyIndexValid(r.model.losses, -1)
    THEN [r EXCEPT !.failed_log = TRUE]
    ELSE [r EXCEPT !.log = Append(@, EpochLine(ep, r.model))]

\* save_callback(model, optimizer, scheduler, epoch)
SaveCallback(m, files, lg, cfg, a, ep, optimizer, scheduler, env) ==
    LET r0 == [model |-> [m EXCEPT !.has_last_saved_epoch = TRUE],
               fs |-> files, log |-> lg, config |-> cfg,
               raised |-> FALSE, failed |-> "none", failed_log |-> FALSE,
               warned |-> FALSE, wrote |-> {}, removed |-> {}, examined |-> {},
               remove_failed |-> {}, mlflow_logged |-> FALSE, reported |-> FALSE,
               printed_start |-> FALSE]
    IN  IF ep.tag = "start" THEN [r0 EXCEPT !.printed_start = TRUE]
        ELSE LET r1 == AppendLog(r0, ep, env)
                 r2 == Report(r1, ep, a, env)
             IN  IF r2.raised THEN r2
                 ELSE WriteCheckpoint(r2, ep, a, optimizer, scheduler, env)

\* what an invocation leaves to be observed; files is the file system the
\* callback was entered with
Observed(r, files, ep, a, env) ==
    [epoch |-> ep,
     existed_before |-> {b \in Buckets : ep.tag = "int" /\ b < ep.n /\ files[BucketFile(b)].exists}, returned |-> ~r.raised, raised |-> r.raised, failed |-> r.failed,
     failed_log |-> r.failed_log,
     due |-> WriteDue(ep, a) /\ ~(a.checkpoint_dir /\ ep.tag = "on_exit"),
     free |-> IF WriteDue(ep, a) /\ ~(a.checkpoint_dir /\ ep.tag = "on_exit")
              THEN env.free ELSE DiskThresholdMiB,
     warned |-> r.warned, wrote |-> r.wrote, removed |-> r.removed,
     examined |-> r.examined, remove_failed |-> r.remove_failed,
     mlflow_logged |-> r.mlflow_logged, reported |-> r.reported,
     printed_start |-> r.printed_start]

NoCallback ==
    [epoch |-> start, existed_before |-> {}, returned |-> FALSE, raised |-> FALSE, failed |-> "none",
     failed_log |-> FALSE, due |-> FALSE, free |-> DiskThresholdMiB,
     warned |-> FALSE, wrote |-> {}, removed |-> {}, examined |-> {}, remove_failed |-> {},
     mlflow_logged |-> FALSE, reported |-> FALSE, printed_start |-> FALSE]

----------------------------------------------------------------------------
(* main before get_model: arguments, checkpoint loading, reconciliation *)

\* init_device: the device handle of this process
Device(a, rk) == IF a.use_cpu THEN "cpu" ELSE IF rk = 0 THEN "cuda:0" ELSE "cuda:1"

\* the keys compare_dicts pops from both dicts unless all=True
PoppedKeys ==
    {"losses", "learning_rates", "wallclock_times", "bptt_extra_samples",
     "num_classes", "differentiable_hyperparameters", "num_features_used"}

Without(d, keys) == [j \in (DOMAIN d) \ keys |-> d[j]]

\* the test of line 330 on two values that are not both dicts:
\*     (torch.is_tensor(left[k]) and (left[k] != right[k]).all())
\*     or (not torch.is_tensor(left[k]) and left[k] != right[k])
\* (two tensors are of the same length here)
ValuesDiffer(left, right) ==
    IF left.tensor # <<>>
    THEN \A i \in DOMAIN left.tensor : left.tensor[i] # right.tensor[i]
    ELSE left # right

\* compare_dicts(left, right, prefix, all): the lines printed, and the two
\* dicts as the call leaves them
RECURSIVE compare_dicts(_, _, _, _)
compare_dicts(left, right, prefix, all) ==
    LET l0 == IF all THEN left ELSE Without(left, PoppedKeys)
        r0 == IF all THEN right ELSE Without(right, PoppedKeys)
        both == (DOMAIN l0) \cap (DOMAIN r0)
        nested == {k \in both : l0[k].isdict}
        \* left[k] is a dict and right[k] is not: right[k] has no pop, no keys
        broken == {k \in nested : ~r0[k].isdict}
        sub == [k \in nested \ broken |->
                   compare_dicts(l0[k].d, r0[k].d, Append(prefix, k), all)]
    IN  [left |-> [k \in DOMAIN l0 |->
                      IF k \in DOMAIN sub THEN Dict(sub[k].left) ELSE l0[k]],
         right |-> [k \in DOMAIN r0 |->
                      IF k \in DOMAIN sub THEN Dict(sub[k].right) ELSE r0[k]],
         printed |->
              {[path |-> Append(prefix, k), what |-> "missing in left"] :
                   k \in (DOMAIN r0) \ (DOMAIN l0)}
              \cup {[path |-> Append(prefix, k), what |-> "missing in right"] :
                   k \in (DOMAIN l0) \ (DOMAIN r0)}
              \cup {[path |-> Append(prefix, k), what |-> "left, right"] :
                   k \in {j \in both \ nested : ValuesDiffer(l0[j], r0[j])}}
              \cup UNION {sub[k].printed : k \in DOMAIN sub},
         raised |-> broken # {} \/ \E k \in DOMAIN sub : sub[k].raised]

\* the config main assembles from the base config and the parsed arguments
\* (tabpfn: flat; mothernet: one dict for each argument group, the general
\* group promoted to the top level)
NewConfig(prog, a, device) ==
    IF prog = "tabpfn"
    THEN [k \in {"device", "lr", "warm_start_from", "continue_old_config",
                 "stop_after_epochs", "num_classes"} |->
             CASE k = "device" -> Scalar(device)
               [] k = "lr" -> Scalar(a.learning_rate)
               [] k = "warm_start_from" -> Scalar(a.load_file)
               [] k = "continue_old_config" -> Scalar(a.continue_run)
               [] k = "stop_after_epochs" -> Scalar(a.stop_after_epochs)
               [] k = "num_classes" -> Scalar("uniform_int")]
    ELSE [k \in {"device", "orchestration", "optimizer", "prior"} |->
             CASE k = "device" -> Scalar(device)
               [] k = "orchestration" ->
                      Dict([j \in {"warm_start_from", "continue_run", "stop_after_epochs"} |->
                               CASE j = "warm_start_from" -> Scalar(a.load_file)
                                 [] j = "continue_run" -> Scalar(a.continue_run)
                                 [] j = "stop_after_epochs" -> Scalar(a.stop_after_epochs)])
               [] k = "optimizer" ->
                      Dict([j \in {"learning_rate"} |-> Scalar(a.learning_rate)])
               [] k = "prior" ->
                      Dict([j \in {"num_classes"} |-> Scalar("uniform_int")])]

\* the config of a checkpoint: the config of the run that wrote it, with the
\* four fields the callback sets before it saves
SavedConfig(cfg) ==
    Put(Put(Put(Put(cfg, "epoch_in_training", Scalar(IntEpoch(1))),
                "learning_rates", Scalar(<<1>>)),
            "losses", Scalar(<<2>>)),
        "wallclock_times", Scalar(<<1>>))

\* an adoption of old_config that overwrites nothing
AdoptUnchanged(prog, old_config, device, warm_start_weights, stop_after_epochs) == old_config

\* continue_run: config = old_config, then three fields are overwritten
AdoptOldConfig(prog, old_config, device, warm_start_weights, stop_after_epochs) ==
    IF prog = "tabpfn"
    THEN Put(Put(Put(old_config, "device", Scalar(device)),
                 "warm_start_from", Scalar(warm_start_weights)),
             "stop_after_epochs", Scalar(stop_after_epochs))
    ELSE LET c1 == Put(old_config, "device", Scalar(device))
             o1 == Put(c1["orchestration"].d, "warm_start_from", Scalar(warm_start_weights))
             o2 == Put(o1, "stop_after_epochs", Scalar(stop_after_epochs))
         IN  Put(c1, "orchestration", Dict(o2))

\* k.replace('module.', '') on a state-dict key, a key being a sequence of
\* name parts
StripPrefix(key) == SelectSeq(key, LAMBDA part : part # "module.")

\* a continuation that keeps the old scheduler whatever the invocation asks
AlwaysOldScheduler(a, old_scheduler) == old_scheduler

\* the scheduler handed to get_model when a run is continued
ContinuedScheduler(a, old_scheduler) ==
    IF ~a.restart_scheduler THEN old_scheduler ELSE "None"

\* a test that rejects create_new_run whether or not a run is continued
CreateNewRunRejected(a) == a.create_new_run

\* the test of line 36 (tabpfn) and line 28 (mothernet)
DirectivesContradict(a) == a.create_new_run /\ ~a.continue_run

LoadFiles == {"None", "user.cpkt", "st_checkpoint_dir/checkpoint.mothernet"}

\* the arguments of the run that wrote the checkpoint
OldArgs ==
    [use_cpu |-> FALSE, checkpoint_dir |-> FALSE, continue_run |-> FALSE,
     create_new_run |-> FALSE, load_file |-> "None", restart_scheduler |-> FALSE,
     no_mlflow |-> TRUE, learning_rate |-> 1, stop_after_epochs |-> 10]

\* the tuple torch.load returns for a checkpoint written by program prog
Checkpoint(prog) ==
    [present |-> TRUE,
     model_state |-> {<<"module.", "encoder", "weight">>, <<"decoder", "bias">>},
     optimizer_state |-> "old_optimizer_state",
     scheduler |-> "old_scheduler",
     config |-> SavedConfig(NewConfig(prog, OldArgs, "cuda:0"))]

NoCheckpoint ==
    [present |-> FALSE, model_state |-> {}, optimizer_state |-> "None",
     scheduler |-> "None", config |-> EmptyDict]

NothingLoaded ==
    [loaded |-> FALSE, new_config |-> EmptyDict, old_config |-> EmptyDict, printed |-> {}]

NothingPassed ==
    [given |-> FALSE, model_state |-> {}, optimizer_state |-> "None", scheduler |-> "None"]

MaxTries == 5                   \* src/tabpfn/fit_model.py:163
SleepSeconds == 5               \* src/tabpfn/fit_model.py:170

\* a loop test that lets one more attempt through
WhileTriesUpTo(tries) == tries <= MaxTries

\* while tries < 5
WhileTries(tries) == tries < MaxTries

NoTracking ==
    [hostname |-> FALSE, uri_set |-> FALSE, contacted |-> FALSE, tries |-> 0,
     slept |-> 0, experiment_set |-> FALSE, matches |-> "not searched",
     run |-> "none", started |-> FALSE]

SetupArgs ==
    [use_cpu : BOOLEAN, checkpoint_dir : BOOLEAN, continue_run : BOOLEAN,
     create_new_run : BOOLEAN, load_file : {"None", "user.cpkt"},
     restart_scheduler : BOOLEAN, no_mlflow : BOOLEAN,
     learning_rate : {1, 2}, stop_after_epochs : {10, 20}]

----------------------------------------------------------------------------
(* Learning rates: exact fractions n/d with d > 0, in lowest terms *)

RECURSIVE GCD(_, _)
GCD(a, b) == IF b = 0 THEN a ELSE GCD(b, a % b)

Abs(x) == IF x < 0 THEN -x ELSE x

Frac(n, d) ==
    LET g == GCD(Abs(n), d)
    IN  [n |-> n \div g, d |-> d \div g]

Mul(a, b) == Frac(a.n * b.n, a.d * b.d)
Sub(a, b) == Frac(a.n * b.d - b.n * a.d, a.d * b.d)
Less(a, b) == a.n * b.d < b.n * a.d
Leq(a, b) == a.n * b.d <= b.n * a.d
FracMax(a, b) == IF Less(a, b) THEN b ELSE a

NoScheduler == [kind |-> "none"]

----------------------------------------------------------------------------
(* ReduceLROnSpike (tabpfn/utils.py) *)

Sum(seq) == LET RECURSIVE S(_)
                S(i) == IF i = 0 THEN 0 ELSE seq[i] + S(i - 1)
            IN  S(Len(seq))

\* np.abs(np.mean(recent_losses) - current) > np.std(recent_losses), with
\* mean = sum / n and std = sqrt(sum((x - mean)^2) / n), both sides squared
\* and multiplied by n^3
LooksBad(recent_losses, current) ==
    LET n == Len(recent_losses)
        total == Sum(recent_losses)
        deviations == [i \in 1..n |-> (n * recent_losses[i] - total) * (n * recent_losses[i] - total)]
    IN  n * (total - n * current) * (total - n * current) > Sum(deviations)

\* a new rate that is not held at min_lr
NewLrUnclamped(old_lr, factor, min_lr) == Mul(old_lr, factor)

\* new_lr = max(old_lr * self.factor, self.min_lrs[i])
NewLr(old_lr, factor, min_lr) == FracMax(Mul(old_lr, factor), min_lr)

\* an update test that applies every new rate that differs from the old one
UpdateOnAnyChange(old_lr, new_lr, eps) == old_lr # new_lr

\* if old_lr - new_lr > self.eps
UpdateApplies(old_lr, new_lr, eps) == Less(eps, Sub(old_lr, new_lr))

\* _reduce_lr: the rates of the parameter groups after the call
ReduceLr(s, groups) ==
    [i \in 1..Len(groups) |->
        LET old_lr == groups[i]
            new_lr == NewLr(old_lr, s.factor, s.min_lrs[i])
        IN  IF UpdateApplies(old_lr, new_lr, s.eps) THEN new_lr ELSE old_lr]

\* step(metrics): the scheduler and the rates after the call
SpikeStep(s, groups, metrics) ==
    LET s1 == [s EXCEPT !.current = metrics, !.last_epoch = @ + 1]
    IN  IF Len(s1.recent_losses) < s1.smoothing
        THEN [sched |-> [s1 EXCEPT !.recent_losses = Append(@, metrics)],
              groups |-> groups]
        ELSE IF LooksBad(s1.recent_losses, metrics)
        THEN LET reduced == ReduceLr(s1, groups)
             IN  [sched |-> [s1 EXCEPT !.recent_losses = <<>>,
                                       !.has_last_lr = TRUE, !.last_lr = reduced],
                  groups |-> reduced]
        ELSE [sched |-> [s1 EXCEPT !.has_recent_loses = TRUE,
                                   !.recent_loses = Append(Tail(s1.recent_losses), metrics),
                                   !.has_last_lr = TRUE, !.last_lr = groups],
              groups |-> groups]

----------------------------------------------------------------------------
(* main from the get_model call on (tabpfn/fit_model.py lines 186-199) *)

NewModel ==
    [losses |-> <<>>, learning_rates |-> <<>>, wallclock_times |-> <<>>,
     has_last_saved_epoch |-> FALSE]

\* the config handed to get_model when no checkpoint was saved yet
TrainingConfig == [k \in {"lr"} |-> Scalar(1)]

TrainArgs == [no_mlflow : BOOLEAN, checkpoint_dir : BOOLEAN, save_every : SaveEveryValues]

\* the checkpoint files found under base_path when training starts
InitialFiles == {[f \in Files |-> IF f \in S THEN OldFile ELSE NoFile] :
                    S \in {T \in SUBSET ({BucketFile(b) : b \in Buckets} \cup {EpochFile(on_exit)}) :
                              Cardinality(T) <= MaxPreExisting}}


Init ==
    /\ pc = "get_model"
    /\ args \in TrainArgs
    /\ rank \in {0, 1}
    /\ model = NewModel
    /\ epoch = 0
    /\ fs \in InitialFiles
    /\ log = <<>>
    /\ config = TrainingConfig
    /\ cb = NoCallback
    /\ written = {}
    /\ faults = 0
    /\ program = "tabpfn"
    /\ ckpt = NoCheckpoint
    /\ recon = NothingLoaded
    /\ passed = NothingPassed
    /\ tracking = NoTracking
    /\ sched = NoScheduler
    /\ param_groups = <<>>

\* an exit that makes the on_exit invocation in every process
CallsOnExitAnyRank(rk) == TRUE

\* if rank == 0: (tabpfn line 195, mothernet line 131)
CallsOnExit(rk) == rk = 0

\* the environments an invocation for epoch ep can tell apart: the free
\* space matters when a write is due, a raising call when it is made
EnvsFor(ep, a) ==
    LET due == WriteDue(ep, a) /\ ~(a.checkpoint_dir /\ ep.tag = "on_exit")
    IN  {e \in Envs :
            /\ ~due => e.free = DiskThresholdMiB
            /\ e.fault = "log" => ep.tag # "start"
            /\ e.fault = "mlflow" => (ep.tag = "int" /\ ~a.no_mlflow)
            /\ e.fault = "report" => ep.tag = "int"
            /\ e.fault \in {"mkdirs", "log2", "save"} => due
            /\ e.fault = "remove" => (due /\ PruneDue(ep, a) /\ e.bucket < ep.n)}

\* the state after an invocation of the callback
Invoke(m, ep, optimizer, scheduler, env, next_pc, raised_pc) ==
    \E r \in {SaveCallback(m, fs, log, config, args, ep, optimizer, scheduler, env)} :
    \E obs \in {Observed(r, fs, ep, args, env)} :
    LET hit == IF r.failed # "none" \/ r.failed_log \/ obs.free < DiskThresholdMiB THEN 1 ELSE 0
    IN  /\ faults + hit <= MaxFaults
        \* an environment is drawn once for each thing the invocation can observe
        /\ env.fault \in {"none", r.failed} \/ (env.fault = "log" /\ r.failed_log)
        /\ env.free = obs.free
        /\ faults' = faults + hit
        /\ model' = r.model
        /\ fs' = r.fs
        /\ log' = r.log
        /\ config' = r.config
        /\ cb' = obs
        /\ written' = written \cup r.wrote
        /\ pc' = IF r.raised THEN raised_pc ELSE next_pc

\* the trainer calls the callback with "start" before the first epoch
TrainStart ==
    /\ pc = "get_model"
    /\ \E env \in EnvsFor(start, args) : Invoke(model, start, FALSE, FALSE, env, "loop", "aborted")
    /\ UNCHANGED <<args, rank, epoch, setupVars, schedVars>>

\* one epoch: the three histories grow by one entry, then the callback is
\* called with the epoch index, the optimizer and the scheduler
TrainEpoch ==
    /\ pc = "loop"
    /\ epoch < MaxEpoch
    /\ \E loss \in LossValues, env \in EnvsFor(IntEpoch(epoch + 1), args) :
          LET e == epoch + 1
              m == [model EXCEPT !.losses = Append(@, loss),
                                 !.learning_rates = Append(@, 1),
                                 !.wallclock_times = Append(@, e)]
          IN  /\ epoch' = e
              /\ Invoke(m, IntEpoch(e), TRUE, TRUE, env, "loop", "aborted")
    /\ UNCHANGED <<args, rank, setupVars, schedVars>>

\* an exception raised by the training step leaves get_model and main
TrainRaises ==
    /\ pc = "loop"
    /\ pc' = "aborted"
    /\ UNCHANGED <<args, rank, model, epoch, fs, log, config, cb, written, faults, setupVars, schedVars>>

\* the epoch loop ends (last epoch, early stopping, interrupt), get_model
\* returns and main reaches lines 195-196:
\*     if rank == 0: save_callback(model, None, None, "on_exit")
MainOnExit ==
    /\ pc = "loop"
    /\ IF CallsOnExit(rank)
       THEN \E env \in EnvsFor(on_exit, args) : Invoke(model, on_exit, FALSE, FALSE, env, "returned", "aborted")
       ELSE /\ pc' = "returned"
            /\ UNCHANGED <<model, fs, log, config, cb, written, faults>>
    /\ UNCHANGED <<args, rank, epoch, setupVars, schedVars>>

Next == TrainStart \/ TrainEpoch \/ TrainRaises \/ MainOnExit

Spec == Init /\ [][Next]_vars

----------------------------------------------------------------------------
(* Properties of the training lifecycle (specification Spec) *)

\* the last invocation was for an integer epoch and wrote its checkpoint
PeriodicWrite == cb.epoch.tag = "int" /\ cb.wrote # {}

\* the retention buckets before the epoch of the last invocation
EarlierBuckets == {b \in Buckets : b < cb.epoch.n /\ b % args.save_every = 0}

\* the loss of epoch b, and the loss of the epoch of the last invocation
LossOf(b) == model.losses[b]
ThisLoss == model.losses[cb.epoch.n]

PeriodicFiles == {BucketFile(b) : b \in Buckets} \cup {SlotFile}

C2_DiskGuard ==
    /\ (cb.due /\ cb.free < DiskThresholdMiB /\ cb.failed # "mkdirs") =>
           (cb.wrote = {} /\ cb.removed = {} /\ cb.warned /\ ~cb.raised)
    /\ (cb.due /\ cb.free >= DiskThresholdMiB /\ cb.failed = "none") =>
           cb.wrote # {}

\* C3: no invocation of the callback raises
C3_CallbackIsolated == ~cb.raised

\* C4: when the coordinating process has left main, by return or by an
\* exception raised during training (not by the callback), the last
\* invocation of the callback was the one for on_exit
C4_OnExitReached ==
    (pc \in {"returned", "aborted"} /\ rank = 0 /\ ~cb.raised) => cb.epoch.tag = "on_exit"

C6_SingleSlot ==
    args.checkpoint_dir =>
        (cb.wrote \subseteq {SlotFile} /\ cb.examined = {} /\ cb.removed = {})

\* the callback invocations after the one for "start"
LaterInvocations == epoch + (IF cb.epoch.tag = "on_exit" THEN 1 ELSE 0)

\* C22: once the callback was invoked with "start" the log file begins with
\* the one 'Starting training of model' line, every line after it is an
\* 'Epoch <n> loss <f> learning_rate <f>' line with an integer n, and there
\* is one such line for each later invocation
C22_LogLines ==
    pc # "get_model" =>
        /\ Len(log) = 1 + LaterInvocations
        /\ log[1].kind = "Starting training of model"
        /\ \A i \in 2..Len(log) : log[i].kind = "Epoch" /\ log[i].tag = "int"

\* C23: the first invocation is the one for "start"; each later invocation
\* made by the loop is for the next integer epoch; the on_exit invocation is
\* made once, by the process of rank 0, as the last one of a run that
\* returns, and a process of another rank returns without it
C23_InvocationOrder ==
    [][/\ pc = "get_model" => (cb'.epoch = start /\ cb'.printed_start /\ pc' = "loop")
       /\ (pc = "loop" /\ pc' = "loop")
             => (epoch' = epoch + 1 /\ cb'.epoch = IntEpoch(epoch + 1)
                   /\ cb.epoch = IF epoch = 0 THEN start ELSE IntEpoch(epoch))
       /\ pc' = "returned"
             => (pc = "loop" /\ cb.epoch.tag # "on_exit"
                   /\ IF rank = 0 THEN cb'.epoch = on_exit ELSE cb' = cb)
       /\ cb'.epoch.tag = "on_exit" => (rank = 0 /\ pc = "loop" /\ pc' # "loop")
       /\ pc \in {"returned", "aborted"} => pc' = pc]_vars

\* C23 witness: the process of rank 0 has returned from a run of two epochs
\* or more, its last invocation being the one for on_exit
C23_ReturnedAfterOnExit ==
    /\ pc = "returned"
    /\ rank = 0
    /\ epoch >= 2
    /\ cb.epoch = on_exit
    /\ cb.returned

HistoryFields == {"epoch_in_training", "learning_rates", "losses", "wallclock_times"}

\* the last invocation got past the disk guard and the 'Saving model' line
\* and called save_model
ProceededToWrite(c) ==
    /\ c.due
    /\ c.free >= DiskThresholdMiB
    /\ ~c.raised
    /\ c.failed \notin {"mkdirs", "log2"}

\* C26: no step of a run changes a config field other than
\* epoch_in_training, learning_rates, losses and wallclock_times; config
\* changes only in a callback invocation that passes the disk guard and goes
\* on to call save_model, and every other invocation leaves it as it was
C26_ConfigFrame ==
    [][/\ DOMAIN config' \subseteq (DOMAIN config) \cup HistoryFields
       /\ \A k \in (DOMAIN config) \ HistoryFields :
             k \in DOMAIN config' /\ config'[k] = config[k]
       /\ config' # config => (cb' # cb /\ ProceededToWrite(cb'))
       /\ ~ProceededToWrite(cb') => config' = config]_vars

\* C26 witness: a periodic write has recorded its epoch in config and the
\* configured rate is the one training started with
C26_HistoryRecorded ==
    /\ cb.epoch.tag = "int"
    /\ cb.wrote # {}
    /\ "epoch_in_training" \in DOMAIN config
    /\ config["epoch_in_training"] = Scalar(cb.epoch)
    /\ config["lr"] = TrainingConfig["lr"]

\* C27: every checkpoint file the callback wrote and that is still there holds
\* a complete tuple: the optimizer and the scheduler it was called with are
\* objects, not None, and the config in it records the epoch
C27_CompleteTuple ==
    \A f \in written :
        fs[f].exists =>
            /\ fs[f].optimizer
            /\ fs[f].scheduler
            /\ fs[f].epoch_in_training # start

\* the last invocation had a due write with enough free space, and nothing
\* but a log append or a removal failed in it
OnlyLogOrRemoveFailed ==
    /\ cb.due
    /\ cb.free >= DiskThresholdMiB
    /\ ~cb.raised
    /\ cb.failed \in {"none", "log2", "remove"}

\* the buckets the pruning loop of the last invocation has to go through
BucketsToExamine == {b \in EarlierBuckets : b < (cb.epoch.n \div args.save_every) * args.save_every}

\* C28: a failed append to the log file, the first or the second of the
\* invocation, does not keep the due checkpoint from being written, and a
\* removal that fails does not keep the loop from examining every earlier
\* bucket
C28_OwnBoundary ==
    /\ (OnlyLogOrRemoveFailed /\ (cb.failed_log \/ cb.failed = "log2")) => cb.wrote # {}
    /\ (PeriodicWrite /\ PruneDue(cb.epoch, args) /\ cb.remove_failed # {}) =>
            cb.examined = BucketsToExamine

\* the epochs whose per-epoch checkpoint the callback has written so far
WrittenEpochs == {f.n : f \in {g \in written : g.tag = "int"}}

\* the losses go up and down again, or down and up again
NonMonotonic(losses) ==
    \E i, j, k \in 1..Len(losses) :
        /\ i < j
        /\ j < k
        /\ \/ losses[i] < losses[j] /\ losses[j] > losses[k]
           \/ losses[i] > losses[j] /\ losses[j] < losses[k]

C31_PruningSpares ==
    /\ [](PeriodicWrite =>
             /\ cb.wrote = {FileName(cb.epoch, args)}
             /\ \A f \in cb.wrote : fs[f].exists /\ fs[f].epoch_in_training = cb.epoch)
    /\ [](\A b \in cb.removed :
             /\ cb.epoch.tag = "int"
             /\ b < cb.epoch.n
             /\ BucketFile(b) \notin cb.wrote
             /\ BucketFile(b) # EpochFile(on_exit))
    /\ [](cb.epoch.tag = "on_exit" => (cb.removed = {} /\ cb.examined = {}))
    /\ [][/\ fs[EpochFile(on_exit)].exists => fs'[EpochFile(on_exit)].exists
          /\ cb'.epoch.tag = "on_exit" => \A f \in Files : fs[f].exists => fs'[f].exists]_vars

\* C31 witness: a periodic write removed the file of an earlier bucket, the
\* file it wrote is there, and so is an on-exit file left by an earlier run
C31_OthersPruned ==
    /\ PeriodicWrite
    /\ cb.removed # {}
    /\ fs[FileName(cb.epoch, args)].exists
    /\ EpochFile(on_exit) \notin written
    /\ fs[EpochFile(on_exit)].exists

----------------------------------------------------------------------------
(* main from the parsed arguments to the get_model call *)

\* the config returned by get_base_config_paper / get_base_config
BaseConfig(prog) == NewConfig(prog, OldArgs, "cpu")

SlotPresent(present) ==
    [f \in Files |-> IF f = SlotFile /\ present THEN OldFile ELSE NoFile]

FileExists(files, load_file) ==
    \/ load_file = "user.cpkt"
    \/ load_file = "st_checkpoint_dir/checkpoint.mothernet" /\ files[SlotFile].exists

\* compare_dicts is called with all=True at tabpfn/fit_model.py line 87 and
\* with the default all=False at mothernet/fit_model.py line 85
CompareAll(prog) == prog = "tabpfn"

SetupInit ==
    /\ pc = "main"
    /\ program \in {"tabpfn", "mothernet"}
    /\ args \in SetupArgs
    /\ rank \in {0, 1}
    /\ \E present \in BOOLEAN :
          /\ present => (args.checkpoint_dir \/ program = "mothernet")
          /\ fs = SlotPresent(present)
    /\ ckpt = Checkpoint(program)
    /\ config = BaseConfig(program)
    /\ recon = NothingLoaded
    /\ passed = NothingPassed
    /\ \E hostname \in BOOLEAN :
          /\ program = "tabpfn" => hostname
          /\ tracking = [NoTracking EXCEPT !.hostname = hostname]
    /\ model = NewModel
    /\ epoch = 0
    /\ log = <<>>
    /\ cb = NoCallback
    /\ written = {}
    /\ faults = 0
    /\ sched = NoScheduler
    /\ param_groups = <<>>

\* a resume that keeps a load_file given on the command line
ResumeKeepsLoadFile(a, files) ==
    IF a.checkpoint_dir /\ files[SlotFile].exists
    THEN [a EXCEPT !.continue_run = TRUE,
                   !.load_file = IF @ = "None"
                                 THEN "st_checkpoint_dir/checkpoint.mothernet" ELSE @]
    ELSE a

\* lines 28-34: args as the syne-tune block leaves them
ResumeFromSlot(a, files) ==
    IF a.checkpoint_dir /\ files[SlotFile].exists
    THEN [a EXCEPT !.continue_run = TRUE,
                   !.load_file = "st_checkpoint_dir/checkpoint.mothernet"]
    ELSE a

\* tabpfn/fit_model.py lines 26-34: a checkpoint found in the syne-tune
\* directory turns the invocation into a continued run
HandleCheckpointDir ==
    /\ pc = "main"
    /\ program = "tabpfn"
    /\ args' = ResumeFromSlot(args, fs)
    /\ pc' = "directives"
    /\ UNCHANGED <<rank, fs, config, program, ckpt, recon, passed, tracking, trainVars, schedVars>>

\* mothernet/fit_model.py line 26: continue_run and warm_start_from become
\* whatever synetune_handle_checkpoint returns
SynetuneHandleCheckpoint ==
    /\ pc = "main"
    /\ program = "mothernet"
    /\ \E continue_run \in BOOLEAN, warm_start_from \in LoadFiles :
          args' = [args EXCEPT !.continue_run = continue_run,
                               !.load_file = warm_start_from]
    /\ pc' = "directives"
    /\ UNCHANGED <<rank, fs, config, program, ckpt, recon, passed, tracking, trainVars, schedVars>>

CheckDirectives ==
    /\ pc = "directives"
    /\ pc' = IF DirectivesContradict(args) THEN "error_create_new_run" ELSE "assemble"
    /\ UNCHANGED <<args, rank, fs, config, program, ckpt, recon, passed, tracking, trainVars, schedVars>>

AssembleConfig ==
    /\ pc = "assemble"
    /\ config' = NewConfig(program, args, Device(args, rank))
    /\ recon' = [recon EXCEPT !.new_config = config']
    /\ pc' = "warm_start"
    /\ UNCHANGED <<args, rank, fs, program, ckpt, passed, tracking, trainVars, schedVars>>

\* warm_start_weights is None: nothing is loaded
ColdStart ==
    /\ pc = "warm_start"
    /\ args.load_file = "None"
    /\ pc' = "tracking"
    /\ UNCHANGED <<args, rank, fs, config, program, ckpt, recon, passed, tracking, trainVars, schedVars>>

\* torch.load raises when the file is not there
LoadFails ==
    /\ pc = "warm_start"
    /\ args.load_file # "None"
    /\ ~FileExists(fs, args.load_file)
    /\ pc' = "error_load"
    /\ UNCHANGED <<args, rank, fs, config, program, ckpt, recon, passed, tracking, trainVars, schedVars>>

ContinueRun ==
    /\ pc = "warm_start"
    /\ args.load_file # "None"
    /\ FileExists(fs, args.load_file)
    /\ args.continue_run
    /\ config' = AdoptOldConfig(program, ckpt.config, Device(args, rank),
                                args.load_file, args.stop_after_epochs)
    /\ recon' = [recon EXCEPT !.loaded = TRUE, !.old_config = config']
    /\ passed' = [given |-> TRUE,
                  model_state |-> {StripPrefix(k) : k \in ckpt.model_state},
                  optimizer_state |-> ckpt.optimizer_state,
                  scheduler |-> ContinuedScheduler(args, ckpt.scheduler)]
    /\ pc' = "tracking"
    /\ UNCHANGED <<args, rank, fs, program, ckpt, tracking, trainVars, schedVars>>

WarmStart ==
    /\ pc = "warm_start"
    /\ args.load_file # "None"
    /\ FileExists(fs, args.load_file)
    /\ ~args.continue_run
    /\ \E r \in {compare_dicts(config, ckpt.config, <<>>, CompareAll(program))} :
          /\ config' = r.left
          /\ recon' = [recon EXCEPT !.loaded = TRUE, !.old_config = r.right,
                                    !.printed = r.printed]
          /\ pc' = IF r.raised THEN "error_compare" ELSE "tracking"
    /\ passed' = [given |-> TRUE,
                  model_state |-> {StripPrefix(k) : k \in ckpt.model_state},
                  optimizer_state |-> "None",
                  scheduler |-> "None"]
    /\ UNCHANGED <<args, rank, fs, program, ckpt, tracking, trainVars, schedVars>>

\* no tracking: get_model is called right away
SkipTracking ==
    /\ pc = "tracking"
    /\ args.no_mlflow \/ ~tracking.hostname
    /\ pc' = "get_model"
    /\ UNCHANGED <<args, rank, fs, config, program, ckpt, recon, passed, tracking, trainVars, schedVars>>

SetTrackingUri ==
    /\ pc = "tracking"
    /\ ~(args.no_mlflow \/ ~tracking.hostname)
    /\ tracking' = [tracking EXCEPT !.uri_set = TRUE]
    /\ pc' = "set_experiment"
    /\ UNCHANGED <<args, rank, fs, config, program, ckpt, recon, passed, trainVars, schedVars>>

\* one turn of the loop "while tries < 5": set_experiment succeeds and the
\* loop is left, or it raises, tries grows and the process sleeps
SetExperiment ==
    /\ pc = "set_experiment"
    /\ WhileTries(tracking.tries)
    /\ \E ok \in BOOLEAN :
          IF ok
          THEN /\ tracking' = [tracking EXCEPT !.contacted = TRUE, !.experiment_set = TRUE]
               /\ pc' = "find_run"
          ELSE /\ tracking' = [tracking EXCEPT !.contacted = TRUE, !.tries = @ + 1,
                                               !.slept = @ + SleepSeconds]
               /\ pc' = IF WhileTries(tracking.tries + 1) THEN "set_experiment" ELSE "find_run"
    /\ UNCHANGED <<args, rank, fs, config, program, ckpt, recon, passed, trainVars, schedVars>>

\* a lookup that takes the first of several runs of the name
RunLookupFirstMatch(found) ==
    CASE found = "raises" -> "error_tracking"
      [] found = "many" -> "start_run"
      [] found = "none" -> "error_no_run"
      [] found = "one" -> "start_run"

\* lines 174-178: search_runs may raise; more than one run of the name is a
\* ValueError; run_ids.iloc[0] raises IndexError when there is none
RunLookup(found) ==
    CASE found = "raises" -> "error_tracking"
      [] found = "many" -> "error_ambiguous_run"
      [] found = "none" -> "error_no_run"
      [] found = "one" -> "start_run"

\* the run to log to: the one run of that name when a run is continued, a
\* new run otherwise
FindRun ==
    /\ pc = "find_run"
    /\ IF args.continue_run /\ ~args.create_new_run
       THEN \E found \in {"raises", "none", "one", "many"} :
               /\ pc' = RunLookup(found)
               /\ tracking' = [tracking EXCEPT !.contacted = TRUE, !.matches = found,
                                  !.run = IF pc' = "start_run" THEN "run_id" ELSE @]
       ELSE /\ pc' = "start_run"
            /\ tracking' = [tracking EXCEPT !.run = "run_name"]
    /\ UNCHANGED <<args, rank, fs, config, program, ckpt, recon, passed, trainVars, schedVars>>

\* mlflow.start_run and the two log_param calls, then get_model
StartRun ==
    /\ pc = "start_run"
    /\ \E ok \in BOOLEAN :
          /\ tracking' = [tracking EXCEPT !.contacted = TRUE, !.started = ok]
          /\ pc' = IF ok THEN "get_model" ELSE "error_tracking"
    /\ UNCHANGED <<args, rank, fs, config, program, ckpt, recon, passed, trainVars, schedVars>>

SetupNext ==
    \/ HandleCheckpointDir
    \/ SynetuneHandleCheckpoint
    \/ CheckDirectives
    \/ AssembleConfig
    \/ ColdStart
    \/ LoadFails
    \/ ContinueRun
    \/ WarmStart
    \/ SkipTracking
    \/ SetTrackingUri
    \/ SetExperiment
    \/ FindRun
    \/ StartRun

SpecSetup == SetupInit /\ [][SetupNext]_vars

\* main is one sequential process: it takes its next step whenever it has one
SpecSetupFair == SpecSetup /\ WF_vars(SetupNext)

----------------------------------------------------------------------------
(* compare_dicts and the adoption of old_config on configs of every shape *)
(* (specification SpecCompare): main is at the warm start with a checkpoint *)
(* file given                                                                *)

\* the dicts with at most the key k, holding one of vals
Opt(k, vals) == {EmptyDict} \cup {[j \in {k} |-> x] : x \in vals}

\* the sub-dicts of a config group
CompareSubDicts ==
    {a @@ b : a \in Opt("num_classes", {Scalar(1), Scalar(2)}),
              b \in Opt("heads", {Scalar(1)})}

\* configs of up to two levels: a plain value, a value compare_dicts skips
\* unless all is given, a group that is a dict or a plain value, and a tensor
CompareDicts ==
    {a @@ b @@ c @@ d :
        a \in Opt("lr", {Scalar(1), Scalar(2)}),
        b \in Opt("losses", {Scalar(1)}),
        c \in Opt("prior", {Scalar(1)} \cup {Dict(sub) : sub \in CompareSubDicts}),
        d \in Opt("w", {Tensor(<<1, 2>>), Tensor(<<1, 3>>), Tensor(<<2, 3>>)})}

CompareInit ==
    /\ pc = "warm_start"
    /\ program \in {"tabpfn", "mothernet"}
    /\ args \in {a \in SetupArgs : /\ a.load_file = "user.cpkt"
                                   /\ ~a.create_new_run
                                   /\ ~a.continue_run => a = [OldArgs EXCEPT !.load_file = "user.cpkt"]}
    /\ rank = 0
    /\ fs = SlotPresent(FALSE)
    /\ IF args.continue_run
       THEN /\ config = NewConfig(program, args, Device(args, rank))
            /\ ckpt = Checkpoint(program)
       ELSE /\ config \in CompareDicts
            /\ \E old_config \in CompareDicts :
                  ckpt = [Checkpoint(program) EXCEPT !.config = old_config]
    /\ recon = [NothingLoaded EXCEPT !.new_config = config]
    /\ passed = NothingPassed
    /\ tracking = NoTracking
    /\ model = NewModel
    /\ epoch = 0
    /\ log = <<>>
    /\ cb = NoCallback
    /\ written = {}
    /\ faults = 0
    /\ sched = NoScheduler
    /\ param_groups = <<>>

CompareNext == WarmStart \/ ContinueRun

SpecCompare == CompareInit /\ [][CompareNext]_vars

----------------------------------------------------------------------------
(* A ReduceLROnSpike scheduler stepped by its owner (specification SpecSpike) *)

\* main is not running
MainIdle ==
    /\ args = OldArgs
    /\ rank = 0
    /\ fs = SlotPresent(FALSE)
    /\ config = EmptyDict
    /\ program = "tabpfn"
    /\ ckpt = NoCheckpoint
    /\ recon = NothingLoaded
    /\ passed = NothingPassed
    /\ tracking = NoTracking
    /\ model = NewModel
    /\ epoch = 0
    /\ log = <<>>
    /\ cb = NoCallback
    /\ written = {}
    /\ faults = 0

mainVars == <<pc, args, rank, fs, config, program, ckpt, recon, passed, tracking, trainVars>>

SpikeLosses == {1, 2, 4}
SpikeFactors == {Frac(1, 2), Frac(1, 10)}
SpikeSmoothing == {1, 2, 3}
SpikeMinLrs == {Frac(0, 1), Frac(1, 8), Frac(1, 2)}
SpikeEps == {Frac(0, 1), Frac(1, 100), Frac(1, 4)}
SpikeGroups == {<<Frac(1, 1)>>, <<Frac(1, 1), Frac(1, 4)>>}

\* the fields __init__ sets (lines 431-452): one min_lr for each group, an
\* empty window, last_epoch 0
NewSpikeScheduler(groups, factor, smoothing, min_lr, eps) ==
    [kind |-> "ReduceLROnSpike", factor |-> factor, smoothing |-> smoothing,
     min_lrs |-> [i \in 1..Len(groups) |-> min_lr], eps |-> eps,
     last_epoch |-> 0, recent_losses |-> <<>>, current |-> 0,
     has_recent_loses |-> FALSE, recent_loses |-> <<>>,
     has_last_lr |-> FALSE, last_lr |-> <<>>]

SpikeInit ==
    /\ pc = "scheduler"
    /\ MainIdle
    /\ param_groups \in SpikeGroups
    /\ \E factor \in SpikeFactors, smoothing \in SpikeSmoothing,
          min_lr \in SpikeMinLrs, eps \in SpikeEps :
          sched = NewSpikeScheduler(param_groups, factor, smoothing, min_lr, eps)

\* scheduler.step(metrics)
Step ==
    /\ sched.last_epoch < MaxSteps
    /\ \E metrics \in SpikeLosses :
       \E r \in {SpikeStep(sched, param_groups, metrics)} :
          /\ sched' = r.sched
          /\ param_groups' = r.groups
    /\ UNCHANGED mainVars

SpikeNext == Step

SpecSpike == SpikeInit /\ [][SpikeNext]_vars

----------------------------------------------------------------------------
(* Properties of ReduceLROnSpike (specification SpecSpike) *)

WindowFull == Len(sched.recent_losses) = sched.smoothing

\* the window test written with the sums of the window:
\* (sum - n * current)^2 > n * sum of squares - sum^2
Deviates(window, current) ==
    LET n == Len(window)
        total == Sum(window)
        squares == Sum([i \in 1..n |-> window[i] * window[i]])
    IN  (total - n * current) * (total - n * current) > n * squares - total * total

\* C13: a step with a full window and an observation that does not trigger
\* leaves the window holding its former entries without the oldest, followed
\* by the observation
C13_WindowSlides ==
    [][(WindowFull /\ ~Deviates(sched.recent_losses, sched'.current))
          => sched'.recent_losses = Append(Tail(sched.recent_losses), sched'.current)]_vars

\* C14 (as amended): a step on a window that is not full changes no rate; a
\* step on a full window with an observation more than one standard deviation
\* from the mean empties the window and sets each group's rate once to
\* max(rate * factor, min_lr) if that lowers it by more than eps, leaving it
\* unchanged otherwise; a step with any other observation changes no rate
C14_SpikeReduction ==
    [][IF WindowFull /\ Deviates(sched.recent_losses, sched'.current)
       THEN /\ sched'.recent_losses = <<>>
            /\ Len(param_groups') = Len(param_groups)
            /\ \A i \in 1..Len(param_groups) :
                  LET target == FracMax(Mul(param_groups[i], sched.factor), sched.min_lrs[i])
                  IN  param_groups'[i] =
                         IF Less(sched.eps, Sub(param_groups[i], target))
                         THEN target ELSE param_groups[i]
       ELSE param_groups' = param_groups]_vars

\* C14 witness: a trigger has lowered the rate of the first group of two and
\* left the second, whose decrease is within eps, where it was
C14_ReducedOneOfTwo ==
    /\ Len(param_groups) = 2
    /\ sched.recent_losses = <<>>
    /\ sched.last_epoch > 0
    /\ Less(param_groups[1], Frac(1, 1))
    /\ param_groups[2] = Frac(1, 4)

\* C14 as stated: a trigger sets every group's rate to max(rate * factor, min_lr)
C14_AsStated ==
    [][IF WindowFull /\ Deviates(sched.recent_losses, sched'.current)
       THEN /\ sched'.recent_losses = <<>>
            /\ \A i \in 1..Len(param_groups) :
                  param_groups'[i] =
                      FracMax(Mul(param_groups[i], sched.factor), sched.min_lrs[i])
       ELSE param_groups' = param_groups]_vars

\* C15: no step raises a group's rate, takes a rate that is at or above the
\* group's min_lr below it, or changes a rate whose decrease would be eps or
\* less
C15_MonotoneRates ==
    [][\A i \in 1..Len(param_groups) :
          LET target == FracMax(Mul(param_groups[i], sched.factor), sched.min_lrs[i])
          IN  /\ Leq(param_groups'[i], param_groups[i])
              /\ Leq(sched.min_lrs[i], param_groups[i]) => Leq(sched.min_lrs[i], param_groups'[i])
              /\ Leq(Sub(param_groups[i], target), sched.eps) => param_groups'[i] = param_groups[i]]_vars

\* C15 witness: a rate has come down to its positive min_lr and a later
\* trigger has left it there
C15_HeldAtFloor ==
    /\ sched.min_lrs[1] = Frac(1, 2)
    /\ param_groups[1] = Frac(1, 2)
    /\ sched.recent_losses = <<>>
    /\ sched.last_epoch >= 2 * (sched.smoothing + 1)

----------------------------------------------------------------------------
(* The step-indexed policies and their composition after a linear warmup, *)
(* as test_min_lr builds them (specification SpecSched)                   *)

BaseLrs == {Frac(1, 1), Frac(1, 8)}
MinLrs == {Frac(1, 64), Frac(1, 8), Frac(1, 2)}
Gammas == {Frac(1, 2), Frac(3, 4), Frac(1, 1)}
WarmupEpochs == {1, 2}
CosineTMax == {1, 2, 3}
StartFactor == Frac(1, 1000)
RestartSteps == 0..3
RestartWarmups == 0..2
TrainingSteps == 1..6

One == Frac(1, 1)

RECURSIVE Pow(_, _)
Pow(g, k) == IF k = 0 THEN One ELSE Mul(g, Pow(g, k - 1))

\* the rate of exponential-with-floor at its step 0
InitialUnclamped(base_lr, min_lr) == base_lr

ExponentialInitial(base_lr, min_lr) == FracMax(base_lr, min_lr)

\* lr_{t+1} = max(lr_t * gamma, min_lr)
ExponentialDecayUnclamped(lr, gamma, min_lr) == Mul(lr, gamma)

ExponentialDecay(lr, gamma, min_lr) == FracMax(Mul(lr, gamma), min_lr)

\* (1 + cos(pi * k / T)) / 2 for the periods where it is rational
HalfCosine(k, T) ==
    LET m == k % (2 * T)
        j == IF m > T THEN 2 * T - m ELSE m
    IN  CASE j = 0 -> One
          [] j = T -> Frac(0, 1)
          [] T = 2 /\ j = 1 -> Frac(1, 2)
          [] T = 3 /\ j = 1 -> Frac(3, 4)
          [] T = 3 /\ j = 2 -> Frac(1, 4)

Add(a, b) == Frac(a.n * b.d + b.n * a.d, a.d * b.d)

CosineToZero(base_lr, eta_min, k, T) == Mul(base_lr, HalfCosine(k, T))

\* eta_min + (base_lr - eta_min) * (1 + cos(pi * k / T_max)) / 2
CosineAnnealing(base_lr, eta_min, k, T) ==
    Add(eta_min, Mul(Sub(base_lr, eta_min), HalfCosine(k, T)))

\* the rates cosine-with-floor may take at its step k: with eta_min above
\* the base rate it either follows the formula or does not move at all
CosineRates(base_lr, eta_min, k, T) ==
    IF Less(base_lr, eta_min) /\ k > 0
    THEN {CosineAnnealing(base_lr, eta_min, k, T), base_lr}
    ELSE {CosineAnnealing(base_lr, eta_min, k, T)}

\* LinearLR(start_factor, end_factor=1, total_iters): the multiplier at step t
WarmupFactor(t, total_iters) ==
    LET m == IF t < total_iters THEN t ELSE total_iters
    IN  Add(StartFactor, Mul(Sub(One, StartFactor), Frac(m, total_iters)))

\* the step counter the base policy sees at step t of the composition
BaseCounterNoReset(t, milestone) == t

BaseCounter(t, milestone) == t - milestone

\* the rates the composition may take at step t, the current rate being lr
SequentialRates(s, t, lr) ==
    IF t < s.milestone
    THEN {Mul(s.base_lr, WarmupFactor(t, s.milestone))}
    ELSE LET k == BaseCounter(t, s.milestone)
         IN  CASE s.policy = "cosine" -> CosineRates(s.base_lr, s.min_lr, k, s.T_max)
               [] OTHER -> IF k = 0
                           THEN {ExponentialInitial(s.base_lr, s.min_lr)}
                           ELSE {ExponentialDecay(lr, s.gamma, s.min_lr)}

\* assert num_training_steps % steps_per_restart == 0
RestartAssertionReversed(num_training_steps, steps_per_restart) ==
    steps_per_restart % num_training_steps = 0

RestartAssertion(num_training_steps, steps_per_restart) ==
    num_training_steps % steps_per_restart = 0

\* inner_lr_lambda(current_step, num_warmup_steps, num_training_steps) with
\* num_cycles = 0.5
inner_lr_lambda(current_step, num_warmup_steps, num_training_steps) ==
    LET one_or_more(x) == IF x < 1 THEN 1 ELSE x
    IN  IF current_step < num_warmup_steps
        THEN Frac(current_step, one_or_more(num_warmup_steps))
        ELSE FracMax(Frac(0, 1),
                     HalfCosine(current_step - num_warmup_steps,
                                one_or_more(num_training_steps - num_warmup_steps)))

\* lr_lambda(current_step) of get_restarting_cosine_schedule_with_warmup
lr_lambda(current_step, num_warmup_steps, steps_per_restart) ==
    inner_lr_lambda(current_step % steps_per_restart,
                    IF current_step < steps_per_restart THEN num_warmup_steps ELSE 0,
                    steps_per_restart)

NewExponentialLR(base_lr, gamma, min_lr) ==
    [kind |-> "ExponentialLR", base_lr |-> base_lr, gamma |-> gamma, min_lr |-> min_lr,
     first |-> ExponentialInitial(base_lr, min_lr), last_epoch |-> 0]

NewSequentialLR(policy, base_lr, gamma, min_lr, warmup_epochs, epochs) ==
    [kind |-> "SequentialLR", policy |-> policy, base_lr |-> base_lr, gamma |-> gamma,
     min_lr |-> min_lr, milestone |-> warmup_epochs, T_max |-> epochs - warmup_epochs,
     epochs |-> epochs, last_epoch |-> 0, lrs |-> <<>>]

RestartCall(num_warmup_steps, num_training_steps, steps_per_restart) ==
    [kind |-> "get_restarting_cosine_schedule_with_warmup", outcome |-> "called",
     last_epoch |-> 0,
     num_warmup_steps |-> num_warmup_steps, num_training_steps |-> num_training_steps,
     steps_per_restart |-> steps_per_restart]

SchedInit ==
    /\ pc = "scheduler"
    /\ MainIdle
    /\ \/ \E base_lr \in BaseLrs, gamma \in Gammas, min_lr \in MinLrs :
             /\ sched = NewExponentialLR(base_lr, gamma, min_lr)
             /\ param_groups = <<sched.first>>
       \/ \E base_lr \in BaseLrs, min_lr \in MinLrs, warmup_epochs \in WarmupEpochs :
             /\ param_groups = <<Mul(base_lr, WarmupFactor(0, warmup_epochs))>>
             /\ \/ \E T \in CosineTMax :
                      sched = NewSequentialLR("cosine", base_lr, One, min_lr,
                                              warmup_epochs, warmup_epochs + T)
                \/ \E gamma \in Gammas \ {One}, epochs \in 1..MaxSteps :
                      /\ epochs > warmup_epochs
                      /\ sched = NewSequentialLR("exponential", base_lr, gamma, min_lr,
                                                 warmup_epochs, epochs)
                \/ \E epochs \in 1..MaxSteps :
                      /\ epochs > warmup_epochs
                      /\ sched = NewSequentialLR("constant", base_lr, One, min_lr,
                                                 warmup_epochs, epochs)
       \/ \E w \in RestartWarmups, n \in TrainingSteps, p \in RestartSteps :
             /\ sched = RestartCall(w, n, p)
             /\ param_groups = <<One>>

\* ExponentialLR.step()
ExponentialLRStep ==
    /\ sched.kind = "ExponentialLR"
    /\ sched.last_epoch < MaxSteps
    /\ sched' = [sched EXCEPT !.last_epoch = @ + 1]
    /\ param_groups' = <<ExponentialDecay(param_groups[1], sched.gamma, sched.min_lr)>>
    /\ UNCHANGED mainVars

\* one pass of the loop of test_min_lr: scheduler.step(), then the rate is
\* appended to lrs
SequentialLRStep ==
    /\ sched.kind = "SequentialLR"
    /\ sched.last_epoch < sched.epochs
    /\ \E lr \in SequentialRates(sched, sched.last_epoch + 1, param_groups[1]) :
          /\ param_groups' = <<lr>>
          /\ sched' = [sched EXCEPT !.last_epoch = @ + 1, !.lrs = Append(@, lr)]
    /\ UNCHANGED mainVars

\* get_restarting_cosine_schedule_with_warmup(optimizer, ...)
GetRestartingCosine ==
    /\ sched.kind = "get_restarting_cosine_schedule_with_warmup"
    /\ sched.outcome = "called"
    /\ sched' = [sched EXCEPT !.outcome =
                    IF sched.steps_per_restart = 0 THEN "ZeroDivisionError"
                    ELSE IF RestartAssertion(sched.num_training_steps, sched.steps_per_restart)
                         THEN "LambdaLR" ELSE "AssertionError"]
    /\ param_groups' =
          IF sched'.outcome = "LambdaLR"
          THEN <<lr_lambda(0, sched.num_warmup_steps, sched.steps_per_restart)>>
          ELSE param_groups
    /\ UNCHANGED mainVars

\* LambdaLR.step(): the rate of a group of base rate 1 becomes
\* lr_lambda(last_epoch)
LambdaLRStep ==
    /\ sched.kind = "get_restarting_cosine_schedule_with_warmup"
    /\ sched.outcome = "LambdaLR"
    /\ sched.last_epoch < sched.num_training_steps
    /\ sched' = [sched EXCEPT !.last_epoch = @ + 1]
    /\ param_groups' = <<lr_lambda(sched.last_epoch + 1, sched.num_warmup_steps,
                                   sched.steps_per_restart)>>
    /\ UNCHANGED mainVars

SchedNext ==
    \/ ExponentialLRStep
    \/ SequentialLRStep
    \/ GetRestartingCosine
    \/ LambdaLRStep

SpecSched == SchedInit /\ [][SchedNext]_vars

----------------------------------------------------------------------------
(* The constructor of ReduceLROnSpike (specification SpecSpikeInit) *)

ConstructorFactors == {Frac(1, 10), Frac(1, 2), Frac(1, 1), Frac(2, 1)}

\* min_lr given as a list or a tuple
ConstructorMinLrLists ==
    {<<a>> : a \in SpikeMinLrs} \cup {<<a, b>> : a \in SpikeMinLrs, b \in SpikeMinLrs}

\* ReduceLROnSpike(optimizer, factor=factor, min_lr=min_lr) about to run; a
\* scalar min_lr is held as a sequence of one element with min_lr_is_list
\* false
SpikeCall(is_optimizer, factor, min_lr_is_list, min_lr) ==
    [kind |-> "ReduceLROnSpike.__init__", outcome |-> "called",
     is_optimizer |-> is_optimizer, factor |-> factor,
     min_lr_is_list |-> min_lr_is_list, min_lr |-> min_lr]

\* how __init__ ends: lines 431-432, 435-437 and 439-441 raise on their
\* conditions; a call that passes them reaches line 448, which reads the
\* name threshold, a name bound nowhere in the function or the module
ConstructorOutcome(call, groups) ==
    IF Leq(One, call.factor) THEN "ValueError"
    ELSE IF ~call.is_optimizer THEN "TypeError"
    ELSE IF call.min_lr_is_list /\ Len(call.min_lr) # Len(groups) THEN "ValueError"
    ELSE "NameError"

SpikeInitInit ==
    /\ pc = "scheduler"
    /\ MainIdle
    /\ param_groups \in SpikeGroups
    /\ \E is_optimizer \in BOOLEAN, factor \in ConstructorFactors :
          \/ \E min_lr \in SpikeMinLrs : sched = SpikeCall(is_optimizer, factor, FALSE, <<min_lr>>)
          \/ \E min_lr \in ConstructorMinLrLists : sched = SpikeCall(is_optimizer, factor, TRUE, min_lr)

\* __init__ runs to its end or to the exception it raises
ReduceLROnSpikeInit ==
    /\ sched.outcome = "called"
    /\ sched' = [sched EXCEPT !.outcome = ConstructorOutcome(sched, param_groups)]
    /\ UNCHANGED <<param_groups, mainVars>>

SpikeInitNext == ReduceLROnSpikeInit

SpecSpikeInit == SpikeInitInit /\ [][SpikeInitNext]_vars

----------------------------------------------------------------------------
(* Properties of the step-indexed policies (specification SpecSched) *)

\* C16: under exponential-with-floor with gamma <= 1 the rate is at every
\* step at or above min_lr and at or below the rate the policy started with
C16_ExponentialBounds ==
    sched.kind = "ExponentialLR"
        => /\ Leq(sched.min_lr, param_groups[1])
           /\ Leq(param_groups[1], sched.first)

\* C16 witness: a rate that started above min_lr has decayed to it
C16_DecayedToFloor ==
    /\ sched.kind = "ExponentialLR"
    /\ sched.last_epoch >= 3
    /\ Less(sched.min_lr, sched.first)
    /\ param_groups[1] = sched.min_lr

\* C17 (as amended): exponential-with-floor with gamma = 1 keeps the rate at
\* max(base rate, min_lr) at every step, which is the base rate when the base
\* rate is at or above min_lr
C17_ConstantRate ==
    (sched.kind = "ExponentialLR" /\ sched.gamma = One)
        => /\ param_groups[1] = FracMax(sched.base_lr, sched.min_lr)
           /\ Leq(sched.min_lr, sched.base_lr) => param_groups[1] = sched.base_lr

\* C17 witness: gamma = 1 with a base rate below min_lr, after three steps
C17_ConstantAtFloor ==
    /\ sched.kind = "ExponentialLR"
    /\ sched.gamma = One
    /\ sched.last_epoch >= 3
    /\ Less(sched.base_lr, sched.min_lr)
    /\ param_groups[1] = sched.min_lr

\* C17 as stated: with gamma = 1 the rate equals the base rate at every step
C17_AsStated ==
    (sched.kind = "ExponentialLR" /\ sched.gamma = One /\ sched.last_epoch >= 1)
        => param_groups[1] = sched.base_lr

\* the rates of the composition from the end of warmup onward
AfterWarmup == sched.milestone..Len(sched.lrs)

Decaying == sched.policy \in {"cosine", "exponential"}

\* the base policy has had the steps it needs to come down to min_lr
FloorReached ==
    /\ Len(sched.lrs) >= sched.milestone
    /\ IF sched.policy = "cosine"
       THEN Len(sched.lrs) = sched.milestone + sched.T_max
       ELSE Leq(Mul(sched.base_lr, Pow(sched.gamma, Len(sched.lrs) - sched.milestone)),
                sched.min_lr)

WithinBounds(t) ==
    /\ Leq(sched.min_lr, sched.lrs[t])
    /\ Leq(sched.lrs[t], FracMax(sched.min_lr, sched.base_lr))

MinimumIsMinLr ==
    /\ \E t \in AfterWarmup : sched.lrs[t] = sched.min_lr
    /\ \A t \in AfterWarmup : Leq(sched.min_lr, sched.lrs[t])

\* C18 (as amended): composed after a linear warmup, the exponential and
\* constant policies, and the cosine policy with a base rate at or above
\* min_lr, keep every rate from the end of warmup onward between min_lr and
\* max(min_lr, base_lr); the decaying ones among them reach min_lr as their
\* minimum once the base policy has had enough steps (T_max for cosine, until
\* base_lr * gamma^k <= min_lr for exponential); cosine with a base rate
\* below min_lr starts at the base rate, below min_lr
C18_BoundedAfterWarmup ==
    sched.kind = "SequentialLR"
        => IF sched.policy = "cosine" /\ Less(sched.base_lr, sched.min_lr)
           THEN Len(sched.lrs) >= sched.milestone
                    => sched.lrs[sched.milestone] = sched.base_lr
           ELSE /\ \A t \in AfterWarmup : WithinBounds(t)
                /\ (Decaying /\ FloorReached) => MinimumIsMinLr

\* C18 witness: a finished run of warmup and exponential decay that started
\* above min_lr and came down to it
C18_ExponentialReachedFloor ==
    /\ sched.kind = "SequentialLR"
    /\ sched.policy = "exponential"
    /\ sched.last_epoch = sched.epochs
    /\ Less(sched.min_lr, sched.base_lr)
    /\ sched.lrs[sched.milestone] = sched.base_lr
    /\ sched.lrs[sched.epochs] = sched.min_lr

\* C18 as stated: for every base policy every rate from the end of warmup
\* onward is within the bounds, and a finished run of a decaying policy has
\* min_lr as its minimum
C18_AsStated ==
    sched.kind = "SequentialLR"
        => /\ \A t \in AfterWarmup : WithinBounds(t)
           /\ (Decaying /\ sched.last_epoch = sched.epochs) => MinimumIsMinLr

\* the rate the base policy gives at its own step k, in closed form
PolicyRate(k) ==
    IF sched.policy = "cosine"
    THEN CosineAnnealing(sched.base_lr, sched.min_lr, k, sched.T_max)
    ELSE FracMax(Mul(FracMax(sched.base_lr, sched.min_lr), Pow(sched.gamma, k)),
                 sched.min_lr)

\* C19 (as amended): in the warmup composition every rate strictly before
\* the milestone is the warmup rate, every rate at and after it is the base
\* policy's rate at its own step counted from 0 at the milestone, and the
\* rate at the milestone is the base policy's initial rate: max(min_lr,
\* base_lr) for exponential and constant, base_lr for cosine
C19_MilestoneDispatch ==
    sched.kind = "SequentialLR"
        => \A t \in 1..Len(sched.lrs) :
              /\ t < sched.milestone
                    => sched.lrs[t] = Mul(sched.base_lr, WarmupFactor(t, sched.milestone))
              /\ t = sched.milestone
                    => sched.lrs[t] = IF sched.policy = "cosine" THEN sched.base_lr
                                      ELSE FracMax(sched.min_lr, sched.base_lr)
              /\ t >= sched.milestone
                    => \/ sched.lrs[t] = PolicyRate(t - sched.milestone)
                       \/ /\ sched.policy = "cosine"
                          /\ Less(sched.base_lr, sched.min_lr)
                          /\ sched.lrs[t] = sched.base_lr

\* C19 witness: a warmup of two steps has handed over to an exponential
\* policy whose base rate is below min_lr
C19_HandedOver ==
    /\ sched.kind = "SequentialLR"
    /\ sched.policy = "exponential"
    /\ sched.milestone = 2
    /\ Len(sched.lrs) > 2
    /\ Less(sched.lrs[1], sched.base_lr)
    /\ Less(sched.base_lr, sched.min_lr)
    /\ sched.lrs[2] = sched.min_lr

\* C19 as stated: the rate at the milestone is max(min_lr, base_lr) for
\* every base policy
C19_AsStated ==
    (sched.kind = "SequentialLR" /\ Len(sched.lrs) >= sched.milestone)
        => sched.lrs[sched.milestone] = FracMax(sched.min_lr, sched.base_lr)

\* n is a whole multiple of p
Divides(p, n) == \E q \in 0..n : q * p = n

\* C20: get_restarting_cosine_schedule_with_warmup fails when the number of
\* training steps is not divisible by the restart period and returns a
\* scheduler when it is
C20_RestartPeriod ==
    (sched.kind = "get_restarting_cosine_schedule_with_warmup" /\ sched.outcome # "called")
        => IF Divides(sched.steps_per_restart, sched.num_training_steps)
           THEN sched.outcome = "LambdaLR"
           ELSE sched.outcome \in {"AssertionError", "ZeroDivisionError"}

\* C20 witness: five steps with a period of three have been refused
C20_Refused ==
    /\ sched.kind = "get_restarting_cosine_schedule_with_warmup"
    /\ sched.num_training_steps = 5
    /\ sched.steps_per_restart = 3
    /\ sched.outcome = "AssertionError"

\* the multiplier of the warmup+cosine cycle at step j of a period
CycleMultiplier(j) ==
    LET W == sched.num_warmup_steps
        P == sched.steps_per_restart
    IN  IF j < W THEN Frac(j, W)
        ELSE HalfCosine(j - W, IF P - W < 1 THEN 1 ELSE P - W)

\* C21: at every step s of a restart-cosine schedule the multiplier equals
\* the multiplier at s mod period, so every period runs the warmup+cosine
\* cycle of the first
C21_PeriodsRepeat ==
    (sched.kind = "get_restarting_cosine_schedule_with_warmup" /\ sched.outcome = "LambdaLR")
        => param_groups[1] = CycleMultiplier(sched.last_epoch % sched.steps_per_restart)

----------------------------------------------------------------------------
(* Properties of main before training (specification SpecSetup) *)

\* the paths to the values of a config of at most two levels
LeafPaths(d) ==
    {<<k>> : k \in {j \in DOMAIN d : ~d[j].isdict}}
    \cup UNION {{<<k, j>> : j \in DOMAIN d[k].d} : k \in {j \in DOMAIN d : d[j].isdict}}

ValueAt(d, path) == IF Len(path) = 1 THEN d[path[1]] ELSE d[path[1]].d[path[2]]

\* where the three fields of the current invocation live in the config
DevicePath == <<"device">>
WarmStartPath ==
    IF program = "tabpfn" THEN <<"warm_start_from">> ELSE <<"orchestration", "warm_start_from">>
StopPath ==
    IF program = "tabpfn" THEN <<"stop_after_epochs">> ELSE <<"orchestration", "stop_after_epochs">>

\* C7: when a run is continued from a loaded checkpoint, the config has the
\* values of the current invocation for device, warm_start_from and
\* stop_after_epochs, and in every other field, at both levels, exactly what
\* the checkpoint's old_config has
C7_ContinuedConfig ==
    (recon.loaded /\ args.continue_run) =>
        /\ LeafPaths(config) = LeafPaths(ckpt.config) \cup {DevicePath, WarmStartPath, StopPath}
        /\ ValueAt(config, DevicePath).v = Device(args, rank)
        /\ ValueAt(config, WarmStartPath).v = args.load_file
        /\ ValueAt(config, StopPath).v = args.stop_after_epochs
        /\ \A path \in LeafPaths(config) \ {DevicePath, WarmStartPath, StopPath} :
              ValueAt(config, path) = ValueAt(ckpt.config, path)

\* C7 witness: a continued run reaches get_model with a learning rate, a stop
\* bound and a device given that differ from the checkpoint's
C7_ContinuedWithNewValues ==
    /\ pc = "get_model"
    /\ recon.loaded
    /\ args.continue_run
    /\ args.learning_rate # OldArgs.learning_rate
    /\ args.stop_after_epochs # OldArgs.stop_after_epochs
    /\ Device(args, rank) # "cuda:0"

\* C8: a continued run passes the checkpoint's optimizer state, and the
\* checkpoint's scheduler unless restart_scheduler is given, in which case it
\* passes no scheduler; a warm start without continue_run passes the model
\* parameters of the checkpoint and neither optimizer state nor scheduler
C8_PassedState ==
    /\ (recon.loaded /\ args.continue_run) =>
           /\ passed.given
           /\ passed.optimizer_state = ckpt.optimizer_state
           /\ passed.scheduler = IF args.restart_scheduler THEN "None" ELSE ckpt.scheduler
    /\ (recon.loaded /\ ~args.continue_run) =>
           /\ passed.given
           /\ \A k \in ckpt.model_state :
                 SelectSeq(k, LAMBDA part : part # "module.") \in passed.model_state
           /\ \A k \in passed.model_state : \A i \in 1..Len(k) : k[i] # "module."
           /\ passed.optimizer_state = "None"
           /\ passed.scheduler = "None"
    /\ ~recon.loaded => passed = NothingPassed

\* C8 witness: a continued run with restart_scheduler reaches get_model
C8_RestartedScheduler ==
    /\ pc = "get_model"
    /\ recon.loaded
    /\ args.continue_run
    /\ args.restart_scheduler
    /\ passed.optimizer_state = "old_optimizer_state"

\* C9: after a warm start without continue_run the config is the config as
\* assembled and the loaded old_config is the checkpoint's, key for key
C9_ReportOnly ==
    (recon.loaded /\ ~args.continue_run) =>
        (config = recon.new_config /\ recon.old_config = ckpt.config)

\* C10: the create_new_run error is raised before anything is loaded, before
\* mlflow is touched and before training; main does not get past the test
\* with create_new_run and without continue_run; with continue_run in effect
\* the error is not raised
C10_CreateNewRun ==
    /\ pc = "error_create_new_run" =>
           (~recon.loaded /\ ~passed.given /\ tracking = [NoTracking EXCEPT !.hostname = tracking.hostname]
              /\ epoch = 0 /\ cb = NoCallback)
    /\ (args.create_new_run /\ ~args.continue_run /\ pc \notin {"main", "directives"}) =>
           pc = "error_create_new_run"
    /\ args.continue_run => pc # "error_create_new_run"

\* C10 witness: main has raised the create_new_run error
C10_Raised == pc = "error_create_new_run" /\ args.create_new_run

\* C25: in tabpfn main with a checkpoint directory designated, the fixed-name
\* file being there sets continue_run and makes that file the load_file
\* whatever the command line gave for them, every other argument staying as
\* given; without the file, or without a directory, all arguments stay as
\* given; and a run that reaches training with the file there is a continued
\* run warm-started from it
C25_ResumeDirectory ==
    /\ [][(pc = "main" /\ program = "tabpfn") =>
             IF args.checkpoint_dir /\ fs[SlotFile].exists
             THEN /\ args'.continue_run
                  /\ args'.load_file = "st_checkpoint_dir/checkpoint.mothernet"
                  /\ \A k \in (DOMAIN args) \ {"continue_run", "load_file"} : args'[k] = args[k]
             ELSE args' = args]_vars
    /\ []((pc = "get_model" /\ program = "tabpfn" /\ args.checkpoint_dir /\ fs[SlotFile].exists)
             => /\ args.continue_run
                /\ config["warm_start_from"] = Scalar("st_checkpoint_dir/checkpoint.mothernet")
                /\ passed.given /\ passed.optimizer_state = ckpt.optimizer_state)

\* C25 witness: tabpfn main has reached training as a continued run loaded
\* from the file of the checkpoint directory
C25_ResumedFromSlot ==
    /\ pc = "get_model"
    /\ program = "tabpfn"
    /\ args.checkpoint_dir
    /\ args.load_file = "st_checkpoint_dir/checkpoint.mothernet"
    /\ args.continue_run
    /\ passed.given

\* the positions at which main has ended with an exception
ErrorPcs ==
    {"error_create_new_run", "error_load", "error_compare", "error_tracking",
     "error_ambiguous_run", "error_no_run"}

\* C24: a search that finds more than one run of the name ends main with the
\* ambiguous-run error; main is at an error only with no callback invoked and
\* no epoch trained, and never after the training call; exactly one match
\* makes the run id of that run the identity under which the run is started
C24_RunIdentity ==
    /\ tracking.matches = "many" => pc = "error_ambiguous_run"
    /\ pc = "error_ambiguous_run"
          => (args.continue_run /\ ~args.create_new_run /\ ~args.no_mlflow
                /\ tracking.matches = "many")
    /\ pc \in ErrorPcs => (cb = NoCallback /\ epoch = 0 /\ model = NewModel /\ ~tracking.started)
    /\ tracking.matches = "one"
          => (tracking.run = "run_id" /\ pc \in {"start_run", "get_model", "error_tracking"})
    /\ (pc = "get_model" /\ tracking.started /\ args.continue_run /\ ~args.create_new_run)
          => (tracking.matches = "one" /\ tracking.run = "run_id")

\* C24 witness: a continued run has been refused because two runs carry its
\* name
C24_AmbiguousRun ==
    /\ pc = "error_ambiguous_run"
    /\ tracking.matches = "many"
    /\ tracking.experiment_set

\* C11: when set_experiment has failed on all 5 attempts main raises and
\* get_model is not called
C11_HandshakeFatal ==
    (tracking.tries = MaxTries /\ ~tracking.experiment_set) => pc # "get_model"

\* C12: set_experiment is attempted at most 5 times, is not attempted again
\* after it has succeeded, every failed attempt is followed by the same sleep
\* of 5 seconds, and the retry loop is always left
C12_BoundedHandshake ==
    /\ [](/\ tracking.tries + (IF tracking.experiment_set THEN 1 ELSE 0) <= MaxTries
          /\ tracking.experiment_set => pc # "set_experiment"
          /\ tracking.slept = tracking.tries * SleepSeconds)
    /\ (pc = "set_experiment") ~> (pc # "set_experiment")

\* C12 witness: the fifth attempt succeeds after four failures
C12_FifthAttemptSucceeds ==
    /\ tracking.experiment_set
    /\ tracking.tries = MaxTries - 1
    /\ pc = "find_run"

----------------------------------------------------------------------------
(* Properties of compare_dicts (specification SpecCompare) *)

\* the key at the end of path is in d
HasPath(d, path) ==
    /\ path[1] \in DOMAIN d
    /\ Len(path) = 2 => (d[path[1]].isdict /\ path[2] \in DOMAIN d[path[1]].d)

\* the keys of the two dicts, and of the sub-dicts they both have under one
\* key
ComparedPaths(left, right) ==
    {<<k>> : k \in (DOMAIN left) \cup (DOMAIN right)}
    \cup UNION {{<<k, j>> : j \in (DOMAIN left[k].d) \cup (DOMAIN right[k].d)} :
                   k \in {i \in (DOMAIN left) \cap (DOMAIN right) :
                              left[i].isdict /\ right[i].isdict}}

\* the keys missing on one side, and the keys whose values, not both dicts,
\* are different
Mismatches(left, right) ==
    {path \in ComparedPaths(left, right) :
        \/ ~HasPath(left, path)
        \/ ~HasPath(right, path)
        \/ /\ ~(ValueAt(left, path).isdict /\ ValueAt(right, path).isdict)
           /\ ValueAt(left, path) # ValueAt(right, path)}

\* C29: compare_dicts reports exactly the keys that are missing on one side
\* or hold different values, key by key through the sub-dicts; a config
\* compared with itself gives no report; and a continued run has the old
\* config in every field but device, warm_start_from and stop_after_epochs
C29_StructuralDiff ==
    /\ (recon.loaded /\ ~args.continue_run) =>
           /\ pc = "tracking"
           /\ {line.path : line \in recon.printed} = Mismatches(recon.new_config, ckpt.config)
           /\ recon.new_config = ckpt.config => recon.printed = {}
    /\ (recon.loaded /\ args.continue_run) =>
           \A path \in LeafPaths(ckpt.config) \cup LeafPaths(config) :
               path \notin {DevicePath, WarmStartPath, StopPath} =>
                   /\ HasPath(config, path)
                   /\ HasPath(ckpt.config, path)
                   /\ ValueAt(config, path) = ValueAt(ckpt.config, path)

----------------------------------------------------------------------------
(* Properties of the constructor of ReduceLROnSpike (specification *)
(* SpecSpikeInit)                                                   *)

\* the call has an optimizer, a factor below 1 and a min_lr that is a scalar
\* or a list with one entry for each parameter group
ValidConstruction ==
    /\ sched.is_optimizer
    /\ Less(sched.factor, One)
    /\ sched.min_lr_is_list => Len(sched.min_lr) = Len(param_groups)

\* C32: a valid construction succeeds; a factor of 1 or more raises
\* ValueError; with an optimizer and a factor below 1, a min_lr list of
\* another length than the parameter groups raises ValueError
C32_Constructor ==
    sched.outcome # "called" =>
        /\ ValidConstruction => sched.outcome = "constructed"
        /\ Leq(One, sched.factor) => sched.outcome = "ValueError"
        /\ (sched.is_optimizer /\ Less(sched.factor, One) /\ ~ValidConstruction)
               => sched.outcome = "ValueError"

====
